---- MODULE Spec2Model ----
(***************************************************************************)
(* Model of the OpenAPI discovery agent (src/agent/agent_discovery.py):    *)
(* the document fetcher, the analysis engine that turns the reasoning      *)
(* service's free text into a SpecLocation, and the URL verifier.          *)
(*                                                                         *)
(* Texts exchanged with the reasoning service are sequences of tokens      *)
(* (a fence marker, braces, quotes, words, newlines): the fence stripping  *)
(* and the JSON parsing are computed on them as the code computes them on  *)
(* characters.  Documentation pages never get inspected by the code, only  *)
(* cut to a length, so a page is a document name and a length.             *)
(***************************************************************************)
EXTENDS Integers, Sequences, FiniteSets, TLC

(***************************************************************************)
(* Tokens of the response text of the reasoning service.  FENCE is the     *)
(* three-backquote marker, NL a newline, QUOTE a double quote.             *)
(***************************************************************************)
FENCE == "FENCE"
JSONWORD == "json"
NL == "NL"
QUOTE == "QUOTE"
LBRACE == "{"
RBRACE == "}"
COLON == ":"
COMMA == ","
NULLTOK == "null"
NumberTokens == {"7"}

(***************************************************************************)
(* Python values as the json module produces them: None, str, a number,    *)
(* dict.  A str is its token sequence; a dict is its (key, value) pairs in *)
(* the order they were parsed.                                             *)
(***************************************************************************)
None == [t |-> "null", s |-> <<>>, m |-> <<>>]
Str(x) == [t |-> "str", s |-> x, m |-> <<>>]
Num(x) == [t |-> "num", s |-> <<x>>, m |-> <<>>]
Dict(pairs) == [t |-> "obj", s |-> <<>>, m |-> pairs]
EmptyStr == Str(<<>>)

(***************************************************************************)
(* str operations used by the analysis engine.                             *)
(***************************************************************************)
Min(a, b) == IF a < b THEN a ELSE b

\* sub occurs in s at index i
MatchAt(s, sub, i) ==
    /\ i >= 1
    /\ i + Len(sub) - 1 <= Len(s)
    /\ SubSeq(s, i, i + Len(sub) - 1) = sub

\* str.find: the first index >= from at which sub occurs in s, 0 when none
Find(s, sub, from) ==
    LET hits == {i \in from..(Len(s) - Len(sub) + 1) : MatchAt(s, sub, i)} IN
    IF hits = {} THEN 0 ELSE CHOOSE i \in hits : \A j \in hits : i <= j

\* sub in s
Contains(s, sub) == Find(s, sub, 1) # 0

\* str.split(sep): the pieces of s between the non-overlapping occurrences
\* of sep, scanned left to right
RECURSIVE Split(_, _)
Split(s, sep) ==
    LET i == Find(s, sep, 1) IN
    IF i = 0 THEN <<s>>
    ELSE <<SubSeq(s, 1, i - 1)>> \o Split(SubSeq(s, i + Len(sep), Len(s)), sep)

\* str.strip(): leading and trailing whitespace removed
RECURSIVE LStrip(_)
LStrip(s) == IF s # <<>> /\ Head(s) = NL THEN LStrip(Tail(s)) ELSE s

RECURSIVE RStrip(_)
RStrip(s) ==
    IF s # <<>> /\ s[Len(s)] = NL THEN RStrip(SubSeq(s, 1, Len(s) - 1)) ELSE s

Strip(s) == RStrip(LStrip(s))

(***************************************************************************)
(* json.loads on a token text.  A result is [ok, val, next, err]: the      *)
(* value and the index after it, or the decoder error message.           *)
(***************************************************************************)
Ok(v, n) == [ok |-> TRUE, val |-> v, next |-> n, err |-> ""]
Err(msg) == [ok |-> FALSE, val |-> None, next |-> 0, err |-> msg]

RECURSIVE SkipWs(_, _)
SkipWs(t, i) == IF i <= Len(t) /\ t[i] = NL THEN SkipWs(t, i + 1) ELSE i

\* a string literal whose opening quote is at i
ParseString(t, i) ==
    LET j == Find(t, <<QUOTE>>, i + 1) IN
    IF j = 0 THEN Err("Unterminated string starting at")
    ELSE IF \E k \in (i + 1)..(j - 1) : t[k] = NL
         THEN Err("Invalid control character at")
         ELSE Ok(Str(SubSeq(t, i + 1, j - 1)), j + 1)

RECURSIVE ParseValue(_, _)
RECURSIVE ParseMembers(_, _, _)

ParseValue(t, i) ==
    LET j == SkipWs(t, i) IN
    IF j > Len(t) THEN Err("Expecting value")
    ELSE IF t[j] = QUOTE THEN ParseString(t, j)
    ELSE IF t[j] = NULLTOK THEN Ok(None, j + 1)
    ELSE IF t[j] \in NumberTokens THEN Ok(Num(t[j]), j + 1)
    ELSE IF t[j] = LBRACE THEN
        LET k == SkipWs(t, j + 1) IN
        IF k <= Len(t) /\ t[k] = RBRACE THEN Ok(Dict(<<>>), k + 1)
        ELSE ParseMembers(t, j + 1, <<>>)
    ELSE Err("Expecting value")

\* the members of an object from i on, acc the pairs parsed so far
ParseMembers(t, i, acc) ==
    LET j == SkipWs(t, i) IN
    IF j > Len(t) \/ t[j] # QUOTE
    THEN Err("Expecting property name enclosed in double quotes")
    ELSE
      LET key == ParseString(t, j) IN
      IF ~key.ok THEN key
      ELSE
        LET c == SkipWs(t, key.next) IN
        IF c > Len(t) \/ t[c] # COLON THEN Err("Expecting ':' delimiter")
        ELSE
          LET v == ParseValue(t, c + 1) IN
          IF ~v.ok THEN v
          ELSE
            LET e == SkipWs(t, v.next)
                pairs == Append(acc, <<key.val.s, v.val>>)
            IN
            IF e > Len(t) THEN Err("Expecting ',' delimiter")
            ELSE IF t[e] = COMMA THEN ParseMembers(t, e + 1, pairs)
            ELSE IF t[e] = RBRACE THEN Ok(Dict(pairs), e + 1)
            ELSE Err("Expecting ',' delimiter")

JsonLoads(t) ==
    LET r == ParseValue(t, 1) IN
    IF ~r.ok THEN r
    ELSE IF SkipWs(t, r.next) <= Len(t) THEN Err("Extra data")
    ELSE r

\* dict.get(key, default): the value of the last pair parsed under key
RECURSIVE DictGet(_, _, _)
DictGet(pairs, key, default) ==
    IF pairs = <<>> THEN default
    ELSE IF pairs[Len(pairs)][1] = key THEN pairs[Len(pairs)][2]
    ELSE DictGet(SubSeq(pairs, 1, Len(pairs) - 1), key, default)

(***************************************************************************)
(* SpecLocation (the dataclass): seven fields, no validation on            *)
(* construction.                                                           *)
(***************************************************************************)
Fields == {"download_url", "version", "format", "versioning_strategy",
           "github_info", "confidence", "reasoning"}

SpecLocation(url, ver, fmt, strategy, github, conf, why) ==
    [download_url |-> url,
     version |-> ver,
     format |-> fmt,
     versioning_strategy |-> strategy,
     github_info |-> github,
     confidence |-> conf,
     reasoning |-> why]

NoLocation == SpecLocation(None, None, None, None, None, None, None)

(***************************************************************************)
(* The body of the try block of _analyze_with_claude.  An evaluation ends  *)
(* in a returned SpecLocation or in a raised exception (its class and its  *)
(* message, a token text).                                                 *)
(***************************************************************************)
Return(loc) == [raised |-> FALSE, loc |-> loc, type |-> "", msg |-> <<>>]
Raise(type, msg) == [raised |-> TRUE, loc |-> NoLocation, type |-> type, msg |-> msg]

\* the fenced code block taken out of the response text (lines 166-169)
StripFence(response_text) ==
    IF Contains(response_text, <<FENCE, JSONWORD>>)
    THEN Split(Split(response_text, <<FENCE, JSONWORD>>)[2], <<FENCE>>)[1]
    ELSE IF Contains(response_text, <<FENCE>>)
    THEN Split(Split(response_text, <<FENCE>>)[2], <<FENCE>>)[1]
    ELSE response_text

\* result.get('reasoning', 'N/A')[:100] of the progress print (line 175):
\* a str can be sliced, None, a number and a dict cannot
CanSlice(v) == v.t = "str"

\* the SpecLocation built from the parsed dict (lines 177-185)
LocationOf(result) ==
    SpecLocation(DictGet(result, <<"download_url">>, EmptyStr),
                 DictGet(result, <<"version">>, None),
                 DictGet(result, <<"format">>, Str(<<"yaml">>)),
                 DictGet(result, <<"versioning_strategy">>, Str(<<"unknown">>)),
                 DictGet(result, <<"github_info">>, None),
                 DictGet(result, <<"confidence">>, Str(<<"low">>)),
                 DictGet(result, <<"reasoning">>, EmptyStr))

\* lines 162-185, from the response text on
ParseResponse(response_text) ==
    LET parsed == JsonLoads(Strip(StripFence(response_text))) IN
    IF ~parsed.ok THEN Raise("JSONDecodeError", <<parsed.err>>)
    ELSE IF parsed.val.t # "obj"
    THEN Raise("AttributeError", <<"object has no attribute get">>)
    ELSE IF ~CanSlice(DictGet(parsed.val.m, <<"reasoning">>, Str(<<"N/A">>)))
    THEN Raise("TypeError", <<"object is not subscriptable">>)
    ELSE Return(LocationOf(parsed.val.m))

\* lines 151-185: outcome is what the reasoning service does with the request
TryBody(outcome) ==
    IF outcome.kind = "raise" THEN Raise(outcome.type, outcome.msg)
    ELSE IF outcome.kind = "nocontent"
    THEN Raise("IndexError", <<"list index out of range">>)
    ELSE ParseResponse(outcome.text)

\* a handler that catches the decoder errors only
CaughtOnlyDecodeErrors(type) == type = "JSONDecodeError"

\* except Exception (line 187): the classes the handler catches
Caught(type) == type \in {"APIError", "APITimeoutError", "IndexError",
                          "JSONDecodeError", "AttributeError", "TypeError"}

\* a fallback that drops the error text
FallbackWithoutReason(msg) ==
    SpecLocation(EmptyStr, None, Str(<<"yaml">>), Str(<<"unknown">>), None,
                 Str(<<"low">>), EmptyStr)

\* the fallback SpecLocation of the handler (lines 189-197)
Fallback(msg) ==
    SpecLocation(EmptyStr, None, Str(<<"yaml">>), Str(<<"unknown">>), None,
                 Str(<<"low">>), Str(<<"Error during analysis: ">> \o msg))

\* lines 150-197: what _analyze_with_claude hands to its caller
Analyze(outcome) ==
    LET r == TryBody(outcome) IN
    IF r.raised /\ Caught(r.type) THEN Return(Fallback(r.msg)) ELSE r

(***************************************************************************)
(* The reasoning service.  It is asked for a JSON object with seven keys   *)
(* (the system prompt, lines 114-127) and answers with any text, with no   *)
(* content, or with an exception.  The texts it is given here: the JSON    *)
(* text of an object that departs from a complete, well-formed one in at   *)
(* most MaxDeviations keys, bare or wrapped in a fenced block, and texts   *)
(* that are no JSON object.                                                *)
(***************************************************************************)
MaxDeviations == 2

KeyOrder == <<"download_url", "version", "format", "versioning_strategy",
              "github_info", "confidence", "reasoning">>

GithubInfo(owner, repo, path) ==
    Dict(<< << <<"owner">>, Str(owner) >>,
            << <<"repo">>, Str(repo) >>,
            << <<"path">>, Str(path) >> >>)

AcmeRepo == GithubInfo(<<"acme">>, <<"widgets-oai">>, <<"openapi.yaml">>)

\* the value a complete, well-formed answer carries under each key
BaseValue(key) ==
    CASE key = "download_url" -> Str(<<"https://raw.githubusercontent.com/acme/widgets-oai/main/openapi.yaml">>)
      [] key = "version" -> Str(<<"3.1">>)
      [] key = "format" -> Str(<<"json">>)
      [] key = "versioning_strategy" -> Str(<<"in-spec">>)
      [] key = "github_info" -> AcmeRepo
      [] key = "confidence" -> Str(<<"high">>)
      [] key = "reasoning" -> Str(<<"linked", "from", "the", "page">>)

\* the other values an answer may carry under a key (the key may also be
\* absent)
OtherValues(key) ==
    CASE key = "download_url" -> {None}
      [] key = "version" -> {None, Num("7")}
      [] key = "format" -> {Str(<<"yaml">>), Str(<<"xml">>)}
      [] key = "versioning_strategy" -> {Str(<<"semver">>)}
      [] key = "github_info" ->
            {None,
             Dict(<< << <<"owner">>, Str(<<"acme">>) >> >>),
             GithubInfo(<<>>, <<"widgets-oai">>, <<"openapi.yaml">>)}
      [] key = "confidence" -> {Str(<<"certain">>)}
      [] key = "reasoning" ->
            {EmptyStr, None,
             Str(<<"see", FENCE, LBRACE, RBRACE, FENCE>>),
             Str(<<"run", FENCE, JSONWORD>>)}

\* the objects over the keys from index i on that depart from the base
\* values in at most d keys
RECURSIVE Objects(_, _)
Objects(i, d) ==
    IF i > Len(KeyOrder) THEN {<<>>}
    ELSE
      LET key == KeyOrder[i] IN
      {<< << <<key>>, BaseValue(key) >> >> \o rest : rest \in Objects(i + 1, d)}
      \cup
      (IF d = 0 THEN {}
       ELSE Objects(i + 1, d - 1)
            \cup {<< << <<key>>, v >> >> \o rest :
                     v \in OtherValues(key), rest \in Objects(i + 1, d - 1)})

\* the JSON text of a value, as the service writes it
RECURSIVE JsonText(_)
RECURSIVE MembersText(_)
JsonText(v) ==
    CASE v.t = "null" -> <<NULLTOK>>
      [] v.t = "str" -> <<QUOTE>> \o v.s \o <<QUOTE>>
      [] v.t = "num" -> v.s
      [] v.t = "obj" -> <<LBRACE, NL>> \o MembersText(v.m) \o <<NL, RBRACE>>

MembersText(pairs) ==
    IF pairs = <<>> THEN <<>>
    ELSE <<QUOTE>> \o pairs[1][1] \o <<QUOTE, COLON>> \o JsonText(pairs[1][2])
         \o (IF Len(pairs) = 1 THEN <<>> ELSE <<COMMA>> \o MembersText(Tail(pairs)))

\* texts that are no JSON object: nothing, prose, a cut-off object, a JSON
\* string, null, a number, an object followed by more text
OtherPayloads ==
    {<<>>,
     <<"Sorry,", "no", "spec", "found">>,
     <<LBRACE, QUOTE, "download_url", QUOTE, COLON>>,
     <<QUOTE, "openapi.yaml", QUOTE>>,
     <<NULLTOK>>,
     <<"7">>,
     <<LBRACE, RBRACE, "Hope", "this", "helps">>}

Wraps == {"none", "fence", "fencejson", "prose"}

\* the response text: the payload alone, or in a fenced block
Wrapped(payload, wrap) ==
    CASE wrap = "none" -> payload
      [] wrap = "fence" -> <<FENCE, NL>> \o payload \o <<NL, FENCE>>
      [] wrap = "fencejson" -> <<FENCE, JSONWORD, NL>> \o payload \o <<NL, FENCE>>
      [] wrap = "prose" ->
            <<"Here", "it", "is:", NL, FENCE, JSONWORD, NL>> \o payload
            \o <<NL, FENCE, NL, "Done">>

TextOutcome(isobj, pairs, payload, wrap) ==
    [kind |-> "text", type |-> "", msg |-> <<>>, isobj |-> isobj,
     pairs |-> pairs, payload |-> payload, wrap |-> wrap,
     text |-> Wrapped(payload, wrap)]

RaiseOutcome(type, msg) ==
    [kind |-> "raise", type |-> type, msg |-> msg, isobj |-> FALSE,
     pairs |-> <<>>, payload |-> <<>>, wrap |-> "none", text |-> <<>>]

NoContentOutcome ==
    [kind |-> "nocontent", type |-> "", msg |-> <<>>, isobj |-> FALSE,
     pairs |-> <<>>, payload |-> <<>>, wrap |-> "none", text |-> <<>>]

NoOutcome ==
    [kind |-> "none", type |-> "", msg |-> <<>>, isobj |-> FALSE,
     pairs |-> <<>>, payload |-> <<>>, wrap |-> "none", text |-> <<>>]

\* what the service may do with a request, d bounding the objects
ServiceOutcomes(d) ==
    {TextOutcome(TRUE, o, JsonText(Dict(o)), w) : o \in Objects(1, d), w \in Wraps}
    \cup {TextOutcome(FALSE, <<>>, p, w) : p \in OtherPayloads, w \in {"none", "fencejson"}}
    \cup {RaiseOutcome("APITimeoutError", <<"Request timed out.">>),
          RaiseOutcome("APIError", <<>>),
          NoContentOutcome}

\* the answers drawn on when a whole discover_spec call is followed, and
\* when _analyze_with_claude is examined on its own
ProtocolOutcomes == ServiceOutcomes(1)
AnalysisOutcomes == ServiceOutcomes(MaxDeviations)

(***************************************************************************)
(* Documentation pages.  The code only cuts a page to a length, so a page  *)
(* text is the document it is a prefix of and its length; the empty text   *)
(* is the same whatever the document.                                      *)
(***************************************************************************)
FetchLimit == 100000
PromptLimit == 50000
MaxTokens == 2000

EmptyText == [doc |-> "", len |-> 0]
Text(doc, len) == IF len = 0 THEN EmptyText ELSE [doc |-> doc, len |-> len]

\* text[:n]
Prefix(text, n) == Text(text.doc, Min(text.len, n))

BodyLens == {0, 1200, PromptLimit + 1, FetchLimit, FetchLimit + 1}

\* what requests.get(url, timeout=30) comes back with: an exception, or the
\* final response (redirects with a Location are followed by the library)
FetchStatuses == {200, 300, 404, 503}
FetchExceptions == {"Timeout", "ConnectionError"}

ResponseOf(status, body) == [kind |-> "response", type |-> "", status |-> status, body |-> body]
ExceptionOf(type) == [kind |-> "exception", type |-> type, status |-> 0, body |-> EmptyText]
NoFetch == [kind |-> "none", type |-> "", status |-> 0, body |-> EmptyText]

WellFormedUrls == {"https://docs.acme.dev/widgets"}
MalformedUrls == {"docs.acme.dev/widgets"}

\* a URL without a scheme never leaves the library (MissingSchema)
FetchOutcomes(url) ==
    IF url \in MalformedUrls THEN {ExceptionOf("MissingSchema")}
    ELSE {ExceptionOf(e) : e \in FetchExceptions}
         \cup {ResponseOf(st, Text("page", n)) : st \in FetchStatuses, n \in BodyLens}

\* response.raise_for_status(): HTTPError for a 4xx or 5xx status
RaisesForStatus(status) == status >= 400 /\ status < 600

ReturnText(text) == [raised |-> FALSE, text |-> text, type |-> ""]
RaiseFromFetch(type) == [raised |-> TRUE, text |-> EmptyText, type |-> type]

\* a fetch that hands the whole body on
FetchTryBodyUntruncated(f) ==
    IF f.kind = "exception" THEN RaiseFromFetch(f.type)
    ELSE IF RaisesForStatus(f.status) THEN RaiseFromFetch("HTTPError")
    ELSE ReturnText(f.body)

\* the try block of _fetch_documentation, from the outcome of the request
\* on (lines 85-87)
FetchTryBody(f) ==
    IF f.kind = "exception" THEN RaiseFromFetch(f.type)
    ELSE IF RaisesForStatus(f.status) THEN RaiseFromFetch("HTTPError")
    ELSE ReturnText(Prefix(f.body, FetchLimit))

\* except Exception (line 88): the classes the handler catches
FetchCaught(type) == type \in {"Timeout", "ConnectionError", "MissingSchema", "HTTPError"}

\* lines 83-90: what _fetch_documentation hands to discover_spec
FetchDocumentationResult(f) ==
    LET r == FetchTryBody(f) IN
    IF r.raised /\ FetchCaught(r.type) THEN ReturnText(EmptyText) ELSE r

(***************************************************************************)
(* The request sent to the reasoning service (lines 137-159).              *)
(***************************************************************************)
MaxHints == 2

NoHints == [given |-> FALSE, list |-> <<>>]
HintLists == {[given |-> TRUE, list |-> [i \in 1..n |-> "Check API reference section"]] :
                 n \in 0..MaxHints}

\* hints or []
HintsOrEmpty(hints) == IF hints.given THEN hints.list ELSE <<>>

UserPrompt(vendor, api_name, documentation_url, page_content, hints) ==
    [vendor |-> vendor,
     api_name |-> api_name,
     documentation_url |-> documentation_url,
     hints |-> [i \in 1..Len(hints) |-> <<"- ", hints[i]>>],
     content |-> Prefix(page_content, PromptLimit)]

MessagesCreate(user_prompt) ==
    [op |-> "messages.create", max_tokens |-> MaxTokens, user |-> user_prompt]

NoPrompt == UserPrompt("", "", "", EmptyText, <<>>)

(***************************************************************************)
(* The URL verifier (lines 199-226).  The body it scans is a token text.   *)
(***************************************************************************)
SQUOTE == "SQUOTE"

LowerToken(tok) ==
    CASE tok = "OpenAPI" -> "openapi"
      [] tok = "Swagger" -> "swagger"
      [] OTHER -> tok

\* str.lower()
Lower(text) == [i \in 1..Len(text) |-> LowerToken(text[i])]

Keywords == {<<QUOTE, "openapi", QUOTE, COLON>>,
             <<SQUOTE, "openapi", SQUOTE, COLON>>,
             <<"openapi", COLON>>,
             <<"swagger", COLON>>}

\* a scan that skips the lower-casing of the body
HasOpenapiCaseSensitive(content) == \E keyword \in Keywords : Contains(content, keyword)

\* lines 213-215
HasOpenapi(content) == \E keyword \in Keywords : Contains(Lower(content), keyword)

ProbeStatuses == {200, 204, 206, 404, 405, 500}
GetStatuses == {200, 404}

SpecBodies ==
    {<<LBRACE, QUOTE, "openapi", QUOTE, COLON, QUOTE, "3.0.0", QUOTE, RBRACE>>,
     <<LBRACE, SQUOTE, "openapi", SQUOTE, COLON, SQUOTE, "3.0.0", SQUOTE, RBRACE>>,
     <<"OpenAPI", COLON, "3.0.0">>,
     <<"Swagger", COLON, QUOTE, "2.0", QUOTE>>,
     <<"<html>", "not", "a", "spec", "</html>">>,
     <<"<html>", "our", "openapi", "spec", COLON, "soon", "</html>">>,
     <<QUOTE, "openapi", QUOTE, "3.0.0">>,
     <<>>}

HttpResponse(status, content) ==
    [kind |-> "response", type |-> "", status |-> status, content |-> content]
HttpException(type) ==
    [kind |-> "exception", type |-> type, status |-> 0, content |-> <<>>]
NoHttp == [kind |-> "none", type |-> "", status |-> 0, content |-> <<>>]

\* requests.head(url, timeout=10, allow_redirects=True)
HeadOutcomes(url) ==
    IF url \in MalformedUrls THEN {HttpException("MissingSchema")}
    ELSE {HttpException(e) : e \in FetchExceptions}
         \cup {HttpResponse(st, <<>>) : st \in ProbeStatuses}

\* requests.get(url, timeout=30)
GetOutcomes ==
    {HttpException(e) : e \in FetchExceptions}
    \cup {HttpResponse(st, b) : st \in GetStatuses, b \in SpecBodies}

\* a handler for timeouts alone
VerifyCaughtOnlyTimeouts(type) == type = "Timeout"

\* except Exception (line 224): every exception the two requests can raise
\* derives from Exception
VerifyCaught(type) == type \in {"Timeout", "ConnectionError", "MissingSchema"}

\* a test that lets every status but a server error through
ProbeNotServerError(response) == response.status < 500

\* the test of line 207
ProbeSucceeded(response) == response.status = 200

(***************************************************************************)
(* The HTTP front door of agent_api.py: POST /discover (lines 22-83).      *)
(***************************************************************************)
\* required (line 50), in the order the loop visits it
Required == <<"vendor", "api_name", "documentation_url">>
BodyKeys == {Required[i] : i \in 1..Len(Required)} \cup {"hints"}

\* a request body: a JSON object with some of the keys, the JSON text null,
\* a JSON array, or no JSON at all (no body, or a body that is not JSON)
JsonObject(keys, url, hints) ==
    [kind |-> "object", keys |-> keys,
     url |-> IF "documentation_url" \in keys THEN url ELSE "",
     hints |-> IF "hints" \in keys THEN hints ELSE <<>>]
JsonNull == [kind |-> "null", keys |-> {}, url |-> "", hints |-> <<>>]
JsonArray == [kind |-> "array", keys |-> {}, url |-> "", hints |-> <<>>]
NoJson == [kind |-> "nojson", keys |-> {}, url |-> "", hints |-> <<>>]
NoBody == [kind |-> "", keys |-> {}, url |-> "", hints |-> <<>>]

PostedHints == {hl.list : hl \in {h \in HintLists : Len(h.list) = MaxHints}}

Bodies ==
    {JsonObject(keys, u, h) : keys \in SUBSET BodyKeys, u \in WellFormedUrls,
                              h \in PostedHints}
    \cup {JsonNull, JsonArray, NoJson}

\* request.get_json() (line 47): the parsed body; Python None for the JSON
\* text null; without JSON it raises an HTTPException (BadRequest or
\* UnsupportedMediaType) or, in releases of the library before 2.1 for a
\* body of another content type, returns None
GetJson(body) ==
    CASE body.kind = "nojson" ->
            {[raised |-> TRUE, type |-> "BadRequest", data |-> JsonNull],
             [raised |-> TRUE, type |-> "UnsupportedMediaType", data |-> JsonNull],
             [raised |-> FALSE, type |-> "", data |-> JsonNull]}
      [] OTHER -> {[raised |-> FALSE, type |-> "", data |-> body]}

\* field not in data (line 51): None has no membership test
NotIn(field, data) ==
    CASE data.kind = "null" -> [raised |-> TRUE, value |-> FALSE]
      [] data.kind = "array" -> [raised |-> FALSE, value |-> TRUE]
      [] OTHER -> [raised |-> FALSE, value |-> field \notin data.keys]

DoorAnswer(status, error) == [raised |-> FALSE, type |-> "", status |-> status, error |-> error]
DoorRaise(type) == [raised |-> TRUE, type |-> type, status |-> 0, error |-> type]
NoReply == [status |-> 0, error |-> ""]

\* the loop of lines 50-53 from field i on: the answer 400 for the first
\* required field that is missing, status 0 when none is
RECURSIVE ValidateFrom(_, _)
ValidateFrom(i, data) ==
    IF i > Len(Required) THEN DoorAnswer(0, "")
    ELSE IF NotIn(Required[i], data).raised THEN DoorRaise("TypeError")
    ELSE IF NotIn(Required[i], data).value
         THEN DoorAnswer(400, "Missing required field: " \o Required[i])
    ELSE ValidateFrom(i + 1, data)

\* lines 47-53: the body of the try up to the call of the agent
DoorTryBody(j) == IF j.raised THEN DoorRaise(j.type) ELSE ValidateFrom(1, j.data)

\* except Exception (line 82): the HTTPExceptions of the library derive from
\* Exception
DoorCaught(type) == type \in {"TypeError", "BadRequest", "UnsupportedMediaType"}

\* lines 47-53 and 82-83: what the front door answers before it calls the
\* agent, status 0 when it goes on to call it
DoorValidate(j) ==
    IF DoorTryBody(j).raised /\ DoorCaught(DoorTryBody(j).type)
    THEN DoorAnswer(500, DoorTryBody(j).error)
    ELSE DoorTryBody(j)

(***************************************************************************)
(* The state: one call of discover_spec, of _analyze_with_claude or of     *)
(* verify_spec_url, from its entry to its return.                          *)
(***************************************************************************)
VARIABLES
    pc,            \* where the call stands
    call,          \* the method called and its arguments
    fetched,       \* what the documentation request came back with
    page_content,  \* the local of discover_spec
    request,       \* the request sent to the reasoning service
    outcome,       \* what the reasoning service did with it
    ret,           \* what _analyze_with_claude returned or raised
    probe,         \* what the HEAD request of verify_spec_url came back with
    download,      \* what its GET request came back with
    valid,         \* the value verify_spec_url returns
    netlog,        \* the network requests issued so far, in order
    posted,        \* the body of the POST the front door is serving
    reply          \* the status and error text the front door answers with

vars == <<pc, call, fetched, page_content, request, outcome, ret, probe,
          download, valid, netlog, posted, reply>>

door == <<posted, reply>>

Vendors == {"acme"}
ApiNames == {"widgets"}
Urls == WellFormedUrls \cup MalformedUrls

NoCall == [op |-> "", vendor |-> "", api_name |-> "", url |-> "", hints |-> NoHints]
NoRequest == [op |-> "", max_tokens |-> 0, user |-> NoPrompt]
NoReturn == Return(NoLocation)

Init ==
    /\ pc = "idle"
    /\ call = NoCall
    /\ fetched = NoFetch
    /\ page_content = EmptyText
    /\ request = NoRequest
    /\ outcome = NoOutcome
    /\ ret = NoReturn
    /\ probe = NoHttp
    /\ download = NoHttp
    /\ valid = FALSE
    /\ netlog = <<>>
    /\ posted = NoBody
    /\ reply = NoReply

\* discover_spec is entered (lines 45-66)
DiscoverSpec(vendor, api_name, documentation_url, hints) ==
    /\ pc = "idle"
    /\ pc' = "fetch"
    /\ call' = [op |-> "discover_spec", vendor |-> vendor, api_name |-> api_name,
                url |-> documentation_url, hints |-> hints]
    /\ UNCHANGED door
    /\ UNCHANGED <<fetched, page_content, request, outcome, ret, probe,
                   download, valid, netlog>>

\* step 1 of discover_spec: _fetch_documentation (lines 68, 81-90)
FetchDocumentation(f) ==
    /\ pc = "fetch"
    /\ netlog' = Append(netlog, "requests.get")
    /\ fetched' = f
    /\ page_content' = FetchDocumentationResult(f).text
    /\ pc' = IF FetchDocumentationResult(f).raised THEN "raised" ELSE "analyze"
    /\ UNCHANGED door
    /\ UNCHANGED <<call, request, outcome, ret, probe, download, valid>>

\* an analysis that asks the service again when its first answer fails
AnalyzeWithRetry(o) ==
    /\ pc = "analyze"
    /\ request' = MessagesCreate(UserPrompt(call.vendor, call.api_name, call.url,
                                            page_content, HintsOrEmpty(call.hints)))
    /\ netlog' = IF TryBody(o).raised
                 THEN netlog \o <<"messages.create", "messages.create">>
                 ELSE Append(netlog, "messages.create")
    /\ outcome' = o
    /\ ret' = Analyze(o)
    /\ pc' = IF ret'.raised THEN "raised" ELSE "returned"
    /\ UNCHANGED door
    /\ UNCHANGED <<call, fetched, page_content, probe, download, valid>>

\* step 2 of discover_spec: _analyze_with_claude, whose result discover_spec
\* returns (lines 71-79, 92-197)
AnalyzeWithClaude(o) ==
    /\ pc = "analyze"
    /\ request' = MessagesCreate(UserPrompt(call.vendor, call.api_name, call.url,
                                            page_content, HintsOrEmpty(call.hints)))
    /\ netlog' = Append(netlog, "messages.create")
    /\ outcome' = o
    /\ ret' = Analyze(o)
    /\ pc' = IF ret'.raised THEN "raised" ELSE "returned"
    /\ UNCHANGED door
    /\ UNCHANGED <<call, fetched, page_content, probe, download, valid>>

\* verify_spec_url is entered (lines 199-204)
VerifySpecUrl(url) ==
    /\ pc = "idle"
    /\ pc' = "head"
    /\ call' = [op |-> "verify_spec_url", vendor |-> "", api_name |-> "",
                url |-> url, hints |-> NoHints]
    /\ UNCHANGED door
    /\ UNCHANGED <<fetched, page_content, request, outcome, ret, probe,
                   download, valid, netlog>>

\* the existence probe and the test of its status (lines 205-207, 221-226)
VerifyHead(h) ==
    /\ pc = "head"
    /\ netlog' = Append(netlog, "requests.head")
    /\ probe' = h
    /\ IF h.kind = "exception"
       THEN IF VerifyCaught(h.type)
            THEN pc' = "verified" /\ valid' = FALSE
            ELSE pc' = "raised" /\ UNCHANGED valid
       ELSE IF ProbeSucceeded(h)
            THEN pc' = "get" /\ UNCHANGED valid
            ELSE pc' = "verified" /\ valid' = FALSE
    /\ UNCHANGED door
    /\ UNCHANGED <<call, fetched, page_content, request, outcome, ret, download>>

\* the full retrieval and the keyword scan (lines 209-226)
VerifyGet(g) ==
    /\ pc = "get"
    /\ netlog' = Append(netlog, "requests.get")
    /\ download' = g
    /\ IF g.kind = "exception"
       THEN IF VerifyCaught(g.type)
            THEN pc' = "verified" /\ valid' = FALSE
            ELSE pc' = "raised" /\ UNCHANGED valid
       ELSE pc' = "verified" /\ valid' = HasOpenapi(g.content)
    /\ UNCHANGED door
    /\ UNCHANGED <<call, fetched, page_content, request, outcome, ret, probe>>

Next ==
    \/ \E v \in Vendors, a \in ApiNames, u \in Urls, h \in HintLists \cup {NoHints} :
          DiscoverSpec(v, a, u, h)
    \/ \E f \in FetchOutcomes(call.url) : FetchDocumentation(f)
    \/ \E o \in ProtocolOutcomes : AnalyzeWithClaude(o)
    \/ \E u \in Urls : VerifySpecUrl(u)
    \/ \E h \in HeadOutcomes(call.url) : VerifyHead(h)
    \/ \E g \in GetOutcomes : VerifyGet(g)

Spec == Init /\ [][Next]_vars

(***************************************************************************)
(* _analyze_with_claude called on its own, with any page content, and the  *)
(* reasoning service answering with any of AnalysisOutcomes.               *)
(***************************************************************************)
PageContents == {EmptyText, Text("page", PromptLimit + 1)}

InitAnalyze ==
    /\ pc = "analyze"
    /\ call \in {[op |-> "_analyze_with_claude", vendor |-> v, api_name |-> a,
                  url |-> u, hints |-> h] :
                    v \in Vendors, a \in ApiNames, u \in WellFormedUrls,
                    h \in {hl \in HintLists : Len(hl.list) = MaxHints}}
    /\ fetched = NoFetch
    /\ page_content \in PageContents
    /\ request = NoRequest
    /\ outcome = NoOutcome
    /\ ret = NoReturn
    /\ probe = NoHttp
    /\ download = NoHttp
    /\ valid = FALSE
    /\ netlog = <<>>
    /\ posted = NoBody
    /\ reply = NoReply

NextAnalyze == \E o \in AnalysisOutcomes : AnalyzeWithClaude(o)

SpecAnalyze == InitAnalyze /\ [][NextAnalyze]_vars

(***************************************************************************)
(* One POST /discover served by the front door, from the request to the    *)
(* answer, the agent being called in between when the body passes.         *)
(***************************************************************************)
\* lines 46-69: the body is read and validated; the answer is given at once
\* (400 or 500), or agent.discover_spec is entered with the fields of the
\* body, hints defaulting to the empty list (line 59)
PostDiscover(body, j) ==
    /\ pc = "idle"
    /\ posted' = body
    /\ IF DoorValidate(j).raised
       THEN pc' = "raised" /\ UNCHANGED <<call, reply>>
       ELSE IF DoorValidate(j).status # 0
       THEN /\ pc' = "responded"
            /\ reply' = [status |-> DoorValidate(j).status,
                         error |-> DoorValidate(j).error]
            /\ UNCHANGED call
       ELSE /\ pc' = "fetch"
            /\ call' = [op |-> "discover_spec", vendor |-> "acme",
                        api_name |-> "widgets", url |-> j.data.url,
                        hints |-> [given |-> TRUE, list |-> j.data.hints]]
            /\ UNCHANGED reply
    /\ UNCHANGED <<fetched, page_content, request, outcome, ret, probe,
                   download, valid, netlog>>

\* lines 71-83: the result of the agent is answered with 200, an exception
\* out of it with 500
RespondDiscover ==
    /\ posted # NoBody
    /\ pc \in {"returned", "raised"}
    /\ call.op = "discover_spec"
    /\ reply' = IF pc = "raised"
                THEN [status |-> 500, error |-> "Exception"]
                ELSE [status |-> 200, error |-> ""]
    /\ pc' = "responded"
    /\ UNCHANGED <<call, fetched, page_content, request, outcome, ret, probe,
                   download, valid, netlog, posted>>

NextFrontDoor ==
    \/ \E b \in Bodies : \E j \in GetJson(b) : PostDiscover(b, j)
    \/ \E f \in FetchOutcomes(call.url) : FetchDocumentation(f)
    \/ \E o \in ProtocolOutcomes : AnalyzeWithClaude(o)
    \/ RespondDiscover

SpecFrontDoor == Init /\ [][NextFrontDoor]_vars

(***************************************************************************)
(* Properties.                                                             *)
(***************************************************************************)
ErrorPrefix == "Error during analysis: "

Populated(v) == v.t = "str" /\ v.s # <<>>

FallbackShape(loc) ==
    /\ loc.download_url = EmptyStr
    /\ loc.confidence = Str(<<"low">>)
    /\ loc.version = None
    /\ loc.github_info = None

\* the text json.loads is given, and whether it raises on it
ParsedText == JsonLoads(Strip(StripFence(outcome.text)))
ParseFails == outcome.kind = "text" /\ ~ParsedText.ok

\* C1: _analyze_with_claude / discover_spec never raises to its caller: it
\* always returns a SpecLocation, and whenever the service call raises or
\* the response text fails to parse as JSON the SpecLocation has an empty
\* download_url, confidence low, no version, no github_info, and a
\* reasoning that describes the error.
C1_NeverRaises ==
    /\ pc # "raised"
    /\ pc = "returned" =>
         /\ ~ret.raised
         /\ DOMAIN ret.loc = Fields
         /\ outcome.kind = "raise" =>
              /\ FallbackShape(ret.loc)
              /\ ret.loc.reasoning = Str(<<ErrorPrefix>> \o outcome.msg)
         /\ ParseFails =>
              /\ FallbackShape(ret.loc)
              /\ ret.loc.reasoning = Str(<<ErrorPrefix, ParsedText.err>>)

\* the fetch failed, the service answered with prose, and discover_spec
\* still returned the fallback
C1_Witness ==
    /\ pc = "returned"
    /\ call.op = "discover_spec"
    /\ fetched.kind = "exception"
    /\ outcome.kind = "text" /\ ~outcome.isobj /\ ParseFails
    /\ ret.loc.reasoning = Str(<<ErrorPrefix, "Expecting value">>)

\* C8: every discover_spec call performs exactly one documentation fetch
\* attempt followed by exactly one reasoning-service request, in that order,
\* whatever the outcome of either: a failed fetch does not abort discovery
\* (the analysis runs, with empty content), and no failure leads to a retry
\* or a follow-up request.
C8_OneFetchThenOneRequest ==
    call.op = "discover_spec" =>
        /\ pc = "fetch" => netlog = <<>>
        /\ pc = "analyze" => netlog = <<"requests.get">>
        /\ pc \in {"returned", "raised"} => netlog = <<"requests.get", "messages.create">>
        /\ pc = "returned" /\ (fetched.kind = "exception" \/ fetched.status >= 400) =>
              request.user.content = EmptyText
        /\ pc \in {"fetch", "analyze", "returned"}

\* the fetch got a 503, the service timed out, and one request of each was
\* made
C8_Witness ==
    /\ pc = "returned"
    /\ call.op = "discover_spec"
    /\ fetched.kind = "response" /\ fetched.status = 503 /\ fetched.body.len > 0
    /\ outcome.kind = "raise"
    /\ request.user.content = EmptyText
    /\ netlog = <<"requests.get", "messages.create">>

\* the first n characters of a page text
FirstChars(body, n) ==
    IF body.len = 0 THEN EmptyText
    ELSE [doc |-> body.doc, len |-> IF body.len <= n THEN body.len ELSE n]

\* C9 as stated: _fetch_documentation never raises; on any failure (an
\* exception, a non-2xx status) it returns the empty string, and on success
\* the first 100,000 characters of the body.
C9_FetchAsStated ==
    fetched.kind # "none" =>
        /\ pc # "raised"
        /\ page_content =
             IF fetched.kind = "response" /\ fetched.status >= 200 /\ fetched.status < 300
             THEN FirstChars(fetched.body, 100000)
             ELSE EmptyText

\* C9 as amended: _fetch_documentation never raises; on an exception
\* (timeout, DNS or connection error, malformed URL) and on a 4xx or 5xx
\* status it returns the empty string; for every other final status (2xx,
\* and a 3xx the library does not follow) it returns the first 100,000
\* characters of the body.
C9_FetchAmended ==
    fetched.kind # "none" =>
        /\ pc # "raised"
        /\ page_content =
             IF fetched.kind = "response" /\ ~(fetched.status >= 400 /\ fetched.status < 600)
             THEN FirstChars(fetched.body, 100000)
             ELSE EmptyText

\* a 300 answer longer than the limit was cut to the limit
C9_Witness ==
    /\ pc = "analyze"
    /\ fetched.kind = "response" /\ fetched.status = 300
    /\ fetched.body.len = 100001
    /\ page_content = [doc |-> "page", len |-> 100000]

IsSuccessStatus(status) == status >= 200 /\ status < 300

InLog(op) == \E i \in 1..Len(netlog) : netlog[i] = op

\* C10: in verify_spec_url the GET is issued only after the HEAD has
\* returned a success status: whenever the status of the probe is not a
\* success status, verify_spec_url returns false at once and no GET is
\* issued in that call.
C10_GetOnlyAfterProbe ==
    call.op = "verify_spec_url" =>
        /\ (pc = "get" \/ InLog("requests.get")) =>
              /\ netlog[1] = "requests.head"
              /\ probe.kind = "response"
              /\ IsSuccessStatus(probe.status)
        /\ (probe.kind = "response" /\ ~IsSuccessStatus(probe.status)) =>
              /\ pc = "verified"
              /\ valid = FALSE
              /\ netlog = <<"requests.head">>

\* the probe got a 404 and the call returned false with the HEAD alone
C10_Witness ==
    /\ pc = "verified"
    /\ call.op = "verify_spec_url"
    /\ probe.kind = "response" /\ probe.status = 404
    /\ valid = FALSE
    /\ netlog = <<"requests.head">>

(***************************************************************************)
(* Properties of the SpecLocation, by what the service answered.           *)
(***************************************************************************)
Formats == {Str(<<"yaml">>), Str(<<"json">>)}
Confidences == {Str(<<"high">>), Str(<<"medium">>), Str(<<"low">>)}
Strategies == {Str(<<"release-tag">>), Str(<<"file-based">>), Str(<<"in-spec">>),
               Str(<<"unknown">>)}

\* the object the service wrote: whether it has the key, and the value
Present(pairs, key) == \E i \in 1..Len(pairs) : pairs[i][1] = <<key>>
ValueOf(pairs, key) == pairs[CHOOSE i \in 1..Len(pairs) : pairs[i][1] = <<key>>][2]

\* owner, repo and path, each a non-empty string
CompleteGithubInfo(v) ==
    /\ v.t = "obj"
    /\ \A k \in {"owner", "repo", "path"} :
          Present(v.m, k) /\ Populated(ValueOf(v.m, k))

WellFormed(key, v) ==
    CASE key = "download_url" -> v.t = "str"
      [] key = "version" -> v.t \in {"str", "null"}
      [] key = "format" -> v \in Formats
      [] key = "versioning_strategy" -> v \in Strategies
      [] key = "github_info" -> v = None \/ CompleteGithubInfo(v)
      [] key = "confidence" -> v \in Confidences
      [] key = "reasoning" -> v.t = "str"

Default(key) ==
    CASE key = "download_url" -> EmptyStr
      [] key = "version" -> None
      [] key = "format" -> Str(<<"yaml">>)
      [] key = "versioning_strategy" -> Str(<<"unknown">>)
      [] key = "github_info" -> None
      [] key = "confidence" -> Str(<<"low">>)
      [] key = "reasoning" -> EmptyStr

AnsweredObject == outcome.kind = "text" /\ outcome.isobj

\* C2: every SpecLocation returned, on the success path and on the fallback
\* path and for any text of the service, has format in {yaml, json},
\* confidence in {high, medium, low} and versioning_strategy one of
\* release-tag, file-based, in-spec, unknown.
C2_EnumeratedValues ==
    pc = "returned" =>
        /\ ret.loc.format \in Formats
        /\ ret.loc.confidence \in Confidences
        /\ ret.loc.versioning_strategy \in Strategies

\* C3: in every SpecLocation returned, github_info is None or a record with
\* owner, repo and path, all non-empty; never a partial record.
C3_GithubInfoComplete ==
    pc = "returned" =>
        (ret.loc.github_info = None \/ CompleteGithubInfo(ret.loc.github_info))

\* C4: for every response that is a well-formed JSON object with all seven
\* keys, each field of the SpecLocation equals the value the object carries
\* under it: no default, no fallback.
C4_RoundTrip ==
    (/\ pc = "returned"
     /\ AnsweredObject
     /\ outcome.wrap = "none"
     /\ \A key \in Fields :
           Present(outcome.pairs, key) /\ WellFormed(key, ValueOf(outcome.pairs, key)))
    => \A key \in Fields : ret.loc[key] = ValueOf(outcome.pairs, key)

\* C5: for every JSON object text J, the SpecLocation returned for J in a
\* fenced block (plain or json) is the one returned for J alone, also when
\* a string value of J holds a fence marker.
C5_FencedAsBare ==
    (/\ pc = "returned"
     /\ AnsweredObject
     /\ outcome.wrap \in {"fence", "fencejson"})
    => ret = Analyze(TextOutcome(TRUE, outcome.pairs, outcome.payload, "none"))

\* C6: for every response that parses as a JSON object, each field whose
\* key is absent or whose value is malformed takes its default, and each
\* field present and well-formed keeps its parsed value.
C6_DefaultsForAbsentOrMalformed ==
    (/\ pc = "returned"
     /\ AnsweredObject
     /\ outcome.wrap = "none"
     /\ ParsedText.ok
     /\ ParsedText.val = Dict(outcome.pairs))
    => \A key \in Fields :
          ret.loc[key] =
             IF Present(outcome.pairs, key) /\ WellFormed(key, ValueOf(outcome.pairs, key))
             THEN ValueOf(outcome.pairs, key)
             ELSE Default(key)

\* C7 as stated: the reasoning of every SpecLocation returned is populated.
C7_ReasoningPopulated == pc = "returned" => Populated(ret.loc.reasoning)

\* the dict json.loads returned was one the try block could finish with
SuccessPath ==
    /\ outcome.kind = "text"
    /\ ParsedText.ok
    /\ ParsedText.val.t = "obj"
    /\ DictGet(ParsedText.val.m, <<"reasoning">>, EmptyStr).t = "str"

\* C7 as amended: on every failure path the reasoning is populated, with
\* "Error during analysis: " and the error text; on the success path it is
\* the reasoning of the parsed object, and the empty string when the object
\* has no such key, so it is empty when the service gave none.
C7_ReasoningOnFailure ==
    pc = "returned" =>
        IF SuccessPath
        THEN ret.loc.reasoning = DictGet(ParsedText.val.m, <<"reasoning">>, EmptyStr)
        ELSE /\ Populated(ret.loc.reasoning)
             /\ Head(ret.loc.reasoning.s) = ErrorPrefix

\* the service left the reasoning out and the SpecLocation has none
C7_Witness ==
    /\ pc = "returned"
    /\ AnsweredObject
    /\ ~Present(outcome.pairs, "reasoning")
    /\ Present(outcome.pairs, "download_url")
    /\ ret.loc.reasoning = EmptyStr
    /\ ret.loc.confidence = Str(<<"high">>)

OpenapiWords == {"openapi", "OpenAPI"}
MarkerWords == OpenapiWords \cup {"swagger", "Swagger"}

\* the body, in whatever case, holds "openapi": or 'openapi': or openapi: or
\* swagger: at some position
BodyHasMarker(body) ==
    \E i \in 1..Len(body) :
        \/ /\ i + 1 <= Len(body)
           /\ body[i] \in MarkerWords
           /\ body[i + 1] = COLON
        \/ /\ i + 3 <= Len(body)
           /\ body[i] \in {QUOTE, SQUOTE}
           /\ body[i + 1] \in OpenapiWords
           /\ body[i + 2] = body[i]
           /\ body[i + 3] = COLON

NoException == probe.kind # "exception" /\ download.kind # "exception"

\* C11 as stated: whenever the existence probe returns a success status and
\* no exception occurs, verify_spec_url returns true if and only if the
\* lower-cased body of the full retrieval contains one of the markers.
C11_MarkerIffOnSuccessStatus ==
    (/\ call.op = "verify_spec_url"
     /\ pc = "verified"
     /\ probe.kind = "response"
     /\ IsSuccessStatus(probe.status)
     /\ NoException) =>
        /\ download.kind = "response"
        /\ valid = BodyHasMarker(download.content)

\* C11 amended: whenever the existence probe returns status 200 and no
\* exception occurs, verify_spec_url returns true if and only if the
\* lower-cased body of the full retrieval contains one of the markers; for
\* every other status of the probe it returns false.
C11_MarkerIffOnStatus200 ==
    (/\ call.op = "verify_spec_url"
     /\ pc = "verified"
     /\ probe.kind = "response"
     /\ NoException) =>
        IF probe.status = 200
        THEN /\ download.kind = "response"
             /\ valid = BodyHasMarker(download.content)
        ELSE valid = FALSE

\* the probe got a 200, the body read OpenAPI: 3.0.0, and the call returned
\* true
C11_Witness ==
    /\ call.op = "verify_spec_url"
    /\ pc = "verified"
    /\ probe.kind = "response"
    /\ probe.status = 200
    /\ download.kind = "response"
    /\ download.content = <<"OpenAPI", COLON, "3.0.0">>
    /\ valid = TRUE

RequestFailed == probe.kind = "exception" \/ download.kind = "exception"

\* C12: for every url, verify_spec_url never raises: any exception raised
\* during the existence probe or during the full retrieval is converted to
\* the return value false, so the call always yields a boolean.
C12_VerifyNeverRaises ==
    call.op = "verify_spec_url" =>
        /\ pc # "raised"
        /\ valid \in BOOLEAN
        /\ RequestFailed => (pc = "verified" /\ valid = FALSE)

\* the probe got a 200, the full retrieval lost its connection, and the
\* call returned false
C12_Witness ==
    /\ call.op = "verify_spec_url"
    /\ pc = "verified"
    /\ probe.kind = "response"
    /\ probe.status = 200
    /\ download.kind = "exception"
    /\ download.type = "ConnectionError"
    /\ valid = FALSE

RequiredFields == {"vendor", "api_name", "documentation_url"}

\* the body posted is not a JSON object holding all three required fields
LacksRequiredField ==
    /\ posted # NoBody
    /\ (posted.kind # "object" \/ ~(RequiredFields \subseteq posted.keys))

\* C13: for every POST to the discovery endpoint whose request body lacks
\* any of the required fields vendor, api_name or documentation_url (a
\* request with no JSON body at all included), the front door answers with
\* a client error (400) and neither the documentation fetch nor the
\* reasoning-service analysis is invoked during that request.
C13_MissingFieldIsClientError ==
    LacksRequiredField =>
        /\ pc = "responded"
        /\ reply.status = 400
        /\ netlog = <<>>

====
